---- MODULE Spec2Model ----
(***************************************************************************)
(* Model of the VIA VL805 SPI programmer driver (vl805.c).                 *)
(*                                                                         *)
(* The driver talks to the controller through PCI configuration space: an  *)
(* index register at 0x78 and a data register at 0x7c give access to the   *)
(* internal registers, a byte at 0x43 switches the MCU, a long at 0x50     *)
(* holds the firmware version.  Every configuration-space access the       *)
(* driver makes is one step of the model and is appended to `trace`.       *)
(*                                                                         *)
(* A uint32_t is a tuple of four bytes, most significant first: TLC's      *)
(* integers end at 2^31 - 1.                                               *)
(***************************************************************************)
EXTENDS Integers, Sequences, FiniteSets, TLC

(***************************************************************************)
(* Bounds of the model.                                                    *)
(***************************************************************************)
\* writecnt and readcnt of a command range over 0..MaxCnt
MaxCnt == 5
\* the largest writecnt and readcnt of two invocations that may overlap
MaxPairCnt == 1
\* the width in bits of unsigned int where every representable count is tried
WBits == 3
\* modulus of `unsigned int` arithmetic used by Spec; the counters of Spec
\* stay far below it, as they stay far below 2^32 in the program
UIntModulus == 1073741824

\* bytes the caller puts in the write buffer
WriteByteSet == {3, 159}
\* words the device returns when SPI_INDATA is read
IndataSet == { <<17, 34, 51, 68>>, <<165, 0, 255, 128>> }
\* words the device returns for the reads of bring-up
RegReadSet == { <<0, 0, 0, 0>>, <<222, 173, 190, 2>>, <<18, 52, 86, 255>> }

(***************************************************************************)
(* Register addresses and configuration-space offsets.                     *)
(***************************************************************************)
VL805_REG_STOP_POLLING == 262156          \* 0x0004000c
VL805_REG_WB_EN == 262176                 \* 0x00040020
VL805_REG_SPI_OUTDATA == 262352           \* 0x000400d0
VL805_REG_SPI_INDATA == 262368            \* 0x000400e0
VL805_REG_SPI_TRANSACTION == 262384       \* 0x000400f0
VL805_REG_CLK_DIV == 262392               \* 0x000400f8
VL805_REG_SPI_CHIP_ENABLE_LEVEL == 262396 \* 0x000400fc
IndexOffset == 120                        \* 0x78
DataOffset == 124                         \* 0x7c
McuActiveOffset == 67                     \* 0x43
FwVersionOffset == 80                     \* 0x50
TransactionFlags == 1408                  \* 0x00000580
InitTransaction == 1440                   \* 0x000005a0
ClkDivValue == 10                         \* 0x0000000a
ChunkSize == 4

(***************************************************************************)
(* 32-bit words and C's operators on them.                                 *)
(***************************************************************************)
\* the uint32_t with value n (n < 2^31)
W(n) == << (n \div 16777216) % 256, (n \div 65536) % 256, (n \div 256) % 256, n % 256 >>

RECURSIVE BitAnd(_, _)
\* a & b on naturals
BitAnd(a, b) ==
    IF a = 0 \/ b = 0 THEN 0
    ELSE (a % 2) * (b % 2) + 2 * BitAnd(a \div 2, b \div 2)

RECURSIVE BitOr(_, _)
\* a | b on naturals
BitOr(a, b) ==
    IF a = 0 THEN b
    ELSE IF b = 0 THEN a
    ELSE (IF a % 2 = 1 \/ b % 2 = 1 THEN 1 ELSE 0) + 2 * BitOr(a \div 2, b \div 2)

\* x & y, x | y on uint32_t
WordAnd(x, y) == [k \in 1..4 |-> BitAnd(x[k], y[k])]
WordOr(x, y) == [k \in 1..4 |-> BitOr(x[k], y[k])]
\* x << 8 and x >> 8 on uint32_t
Shl8(x) == << x[2], x[3], x[4], 0 >>
Shr8(x) == << 0, x[1], x[2], x[3] >>

RECURSIVE ShrBytes(_, _)
\* x >> (8 * n)
ShrBytes(x, n) == IF n = 0 THEN x ELSE ShrBytes(Shr8(x), n - 1)

\* an unsigned char promoted to uint32_t
ByteWord(b) == << 0, 0, 0, b >>
\* bit k (0 = least significant) of the uint32_t x
WordBit(x, k) == (x[4 - (k \div 8)] \div (2 ^ (k % 8))) % 2

\* unsigned int arithmetic, modulo m
UAdd(m, a, b) == (a + b) % m
USub(m, a, b) == (a - b) % m
Min(a, b) == IF a < b THEN a ELSE b

(***************************************************************************)
(* Configuration-space accesses.  op is "wl" (pci_write_long), "rl"        *)
(* (pci_read_long) or "wb" (pci_write_byte); val is the value written or   *)
(* read; reg is the internal register the caller means to reach (0 for an  *)
(* access outside the index/data window).                                  *)
(***************************************************************************)
NoAccess == [op |-> "none", off |-> 0, val |-> W(0), reg |-> 0]

\* faulty variant: the data register is written before the index register
vl805_setregval_swapped(reg, val) ==
    << [op |-> "wl", off |-> DataOffset, val |-> val, reg |-> reg],
       [op |-> "wl", off |-> IndexOffset, val |-> W(reg), reg |-> reg] >>

\* vl805_setregval(dev, reg, val): the two accesses, in order
vl805_setregval(reg, val) ==
    << [op |-> "wl", off |-> IndexOffset, val |-> W(reg), reg |-> reg],
       [op |-> "wl", off |-> DataOffset, val |-> val, reg |-> reg] >>

\* faulty variant: the register is read without its address being selected
vl805_getregval_noIndex(reg, rd) ==
    << [op |-> "rl", off |-> DataOffset, val |-> rd, reg |-> reg] >>

\* vl805_getregval(dev, reg), the device answering rd: the two accesses
vl805_getregval(reg, rd) ==
    << [op |-> "wl", off |-> IndexOffset, val |-> W(reg), reg |-> reg],
       [op |-> "rl", off |-> DataOffset, val |-> rd, reg |-> reg] >>

\* vl805_mcu_active(dev, val)
vl805_mcu_active(val) ==
    << [op |-> "wb", off |-> McuActiveOffset, val |-> W(val), reg |-> 0] >>

(***************************************************************************)
(* vl805_spi_send_command.  A frame holds the arguments and locals of one  *)
(* invocation; stage names the register operation the invocation is at and *)
(* sub the access of that operation to make next.                          *)
(***************************************************************************)
\* value of a byte of the read buffer the command has not written
Unwritten == 0 - 1
\* return value of an invocation that has not returned
NoRet == 0 - 1
\* size of the caller's read buffer in the model
BufLen == MaxCnt + ChunkSize

\* writearr[idx]; outside the caller's buffer the byte read is unspecified
\* and the model takes 0 (the index is kept in widx)
ReadWriteArr(writearr, idx) ==
    IF idx < Len(writearr) THEN writearr[idx + 1] ELSE 0

\* lines 71-86: the locals at entry; line 86 reads writearr[0] for the log
CmdEntry(umod, writecnt, readcnt, writearr) ==
    [ stage |-> "ce_low", sub |-> 1, umod |-> umod,
      writecnt |-> writecnt, readcnt |-> readcnt, writearr |-> writearr,
      readarr |-> [k \in 0..(BufLen - 1) |-> Unwritten],
      j |-> 0, outdata |-> W(0), indata |-> W(0),
      curwritecnt |-> 0, curreadcnt |-> 0, curtotalcnt |-> 0, readpos |-> 0,
      writes_left |-> writecnt, reads_left |-> readcnt,
      totalcnt |-> UAdd(umod, writecnt, readcnt),
      widx |-> {0}, ridx |-> {}, ret |-> NoRet ]

\* a frame of no invocation
CmdIdle == [CmdEntry(UIntModulus, 0, 0, <<>>) EXCEPT !.stage = "idle", !.widx = {}]

RECURSIVE PackLoop_noOffset(_, _)
\* faulty variant: the write buffer is indexed by i, not by j + i
PackLoop_noOffset(fr, i) ==
    IF i < fr.curtotalcnt
    THEN IF i < fr.curwritecnt
         THEN PackLoop_noOffset([fr EXCEPT
                      !.outdata = WordOr(Shl8(@), ByteWord(ReadWriteArr(fr.writearr, i))),
                      !.writes_left = USub(fr.umod, @, 1),
                      !.widx = @ \cup {i}], i + 1)
         ELSE PackLoop_noOffset([fr EXCEPT !.outdata = Shl8(@)], i + 1)
    ELSE fr

RECURSIVE PackLoop_fourShifts(_, _)
\* faulty variant: the word is shifted four times whatever the chunk's length
PackLoop_fourShifts(fr, i) ==
    IF i < ChunkSize
    THEN IF i < fr.curwritecnt
         THEN LET idx == UAdd(fr.umod, fr.j, i)
              IN PackLoop_fourShifts([fr EXCEPT
                      !.outdata = WordOr(Shl8(@), ByteWord(ReadWriteArr(fr.writearr, idx))),
                      !.writes_left = USub(fr.umod, @, 1),
                      !.widx = @ \cup {idx}], i + 1)
         ELSE PackLoop_fourShifts([fr EXCEPT !.outdata = Shl8(@)], i + 1)
    ELSE fr

RECURSIVE PackLoop_noCountdown(_, _)
\* faulty variant: writes_left is not decremented
PackLoop_noCountdown(fr, i) ==
    IF i < fr.curtotalcnt
    THEN IF i < fr.curwritecnt
         THEN LET idx == UAdd(fr.umod, fr.j, i)
              IN PackLoop_noCountdown([fr EXCEPT
                      !.outdata = WordOr(Shl8(@), ByteWord(ReadWriteArr(fr.writearr, idx))),
                      !.widx = @ \cup {idx}], i + 1)
         ELSE PackLoop_noCountdown([fr EXCEPT !.outdata = Shl8(@)], i + 1)
    ELSE fr

RECURSIVE PackLoop(_, _)
\* lines 95-101: the loop packing the chunk's write bytes, from iteration i
\* (the frame an iteration leaves is handed on as a value, nx)
PackLoop(fr, i) ==
    IF i < fr.curtotalcnt
    THEN LET idx == UAdd(fr.umod, fr.j, i)
             body == IF i < fr.curwritecnt
                     THEN [fr EXCEPT
                             !.outdata = WordOr(Shl8(@),
                                            ByteWord(ReadWriteArr(fr.writearr, idx))),
                             !.writes_left = USub(fr.umod, @, 1),
                             !.widx = @ \cup {idx}]
                     ELSE [fr EXCEPT !.outdata = Shl8(@)]
         IN CHOOSE r \in { PackLoop(nx, i + 1) : nx \in {body} } : TRUE
    ELSE fr

\* faulty variant: the read count is not clipped to the room the writes leave
ChunkCounts_readsUnclipped(fr) ==
    LET tot == Min(ChunkSize, USub(fr.umod, fr.totalcnt, fr.j))
        wr == Min(ChunkSize, fr.writes_left)
        rd == Min(ChunkSize, fr.reads_left)
    IN [fr EXCEPT !.curtotalcnt = tot, !.curwritecnt = wr, !.curreadcnt = rd,
                  !.outdata = W(0)]

\* lines 90-94: the chunk's counts
ChunkCounts(fr) ==
    LET tot == Min(ChunkSize, USub(fr.umod, fr.totalcnt, fr.j))
        wr == Min(ChunkSize, fr.writes_left)
        rd == Min(USub(fr.umod, ChunkSize, wr), fr.reads_left)
    IN [fr EXCEPT !.curtotalcnt = tot, !.curwritecnt = wr, !.curreadcnt = rd,
                  !.outdata = W(0)]

\* faulty variant: the number of bytes read is returned
CmdReturn_count(fr) == [fr EXCEPT !.stage = "done", !.sub = 1, !.ret = fr.readpos]

\* line 116: return 0
CmdReturn(fr) == [fr EXCEPT !.stage = "done", !.sub = 1, !.ret = 0]

\* faulty variant: the loop is left by a return, past the chip-select deassert
LoopHead_noDeassert(fr) ==
    IF fr.j < fr.totalcnt
    THEN [PackLoop(ChunkCounts(fr), 0) EXCEPT !.stage = "outdata", !.sub = 1]
    ELSE CmdReturn(fr)

\* faulty variant: a last chunk of fewer than 4 bytes is not sent
LoopHead_wholeChunks(fr) ==
    IF fr.j + ChunkSize <= fr.totalcnt
    THEN [PackLoop(ChunkCounts(fr), 0) EXCEPT !.stage = "outdata", !.sub = 1]
    ELSE [fr EXCEPT !.stage = "ce_high", !.sub = 1]

\* line 89: the loop test, then lines 90-101 of the chunk or the way out
LoopHead(fr) ==
    IF fr.j < fr.totalcnt
    THEN [PackLoop(ChunkCounts(fr), 0) EXCEPT !.stage = "outdata", !.sub = 1]
    ELSE [fr EXCEPT !.stage = "ce_high", !.sub = 1]

\* faulty variant: the byte count is not shifted into place
TransactionWord_noShift(curtotalcnt) == W(BitOr(TransactionFlags, curtotalcnt))

\* lines 104-105: the control word of a chunk of curtotalcnt bytes
TransactionWord(curtotalcnt) == W(BitOr(TransactionFlags, curtotalcnt * 8))

\* faulty variant: (indata >> (8 * i)) & 0xff
IndataByte_offByOne(indata, i) == WordAnd(ShrBytes(indata, i), ByteWord(255))[4]

\* line 109: (indata >> (8 * (i-1))) & 0xff
IndataByte(indata, i) == WordAnd(ShrBytes(indata, i - 1), ByteWord(255))[4]

RECURSIVE ExtractLoop(_, _)
\* lines 108-111: the loop storing the chunk's read bytes, from iteration i
\* (the frame an iteration leaves is handed on as a value, nx)
ExtractLoop(fr, i) ==
    IF i > 0
    THEN LET body == [fr EXCEPT
                 !.readarr = [k \in DOMAIN @ |->
                                 IF k = fr.readpos THEN IndataByte(fr.indata, i) ELSE @[k]],
                 !.ridx = @ \cup {fr.readpos},
                 !.readpos = UAdd(fr.umod, @, 1),
                 !.reads_left = USub(fr.umod, @, 1)]
         IN CHOOSE r \in { ExtractLoop(nx, i - 1) : nx \in {body} } : TRUE
    ELSE fr

\* the accesses of the register operation the frame is at (rd: what the
\* device answers to a read)
CmdAccesses(fr, rd) ==
    CASE fr.stage = "ce_low" -> vl805_setregval(VL805_REG_SPI_CHIP_ENABLE_LEVEL, W(0))
      [] fr.stage = "outdata" -> vl805_setregval(VL805_REG_SPI_OUTDATA, fr.outdata)
      [] fr.stage = "transaction" ->
             vl805_setregval(VL805_REG_SPI_TRANSACTION, TransactionWord(fr.curtotalcnt))
      [] fr.stage = "indata" -> vl805_getregval(VL805_REG_SPI_INDATA, rd)
      [] fr.stage = "ce_high" -> vl805_setregval(VL805_REG_SPI_CHIP_ENABLE_LEVEL, W(1))

\* what follows the last access of the register operation the frame is at
CmdAdvance(fr, rd) ==
    CASE fr.stage = "ce_low" -> LoopHead(fr)
      [] fr.stage = "outdata" -> [fr EXCEPT !.stage = "transaction", !.sub = 1]
      [] fr.stage = "transaction" -> [fr EXCEPT !.stage = "indata", !.sub = 1]
      [] fr.stage = "indata" ->
             LET got == [fr EXCEPT !.indata = rd]
                 ext == ExtractLoop(got, got.curreadcnt)
             IN LoopHead([ext EXCEPT !.j = UAdd(fr.umod, @, ChunkSize)])
      [] fr.stage = "ce_high" -> CmdReturn(fr)

\* the values the device may answer at the frame's next access
CmdReads(fr) == IF fr.stage = "indata" /\ fr.sub = 2 THEN IndataSet ELSE {W(0)}

\* the frame after its next access
CmdStep(fr, rd) ==
    IF fr.sub < Len(CmdAccesses(fr, rd))
    THEN [fr EXCEPT !.sub = @ + 1]
    ELSE CmdAdvance(fr, rd)

\* whether an invocation is under way in the frame
CmdRunning(fr) == fr.stage \notin {"idle", "done"}

(***************************************************************************)
(* vl805_init and vl805_shutdown.                                          *)
(***************************************************************************)
\* a frame of vl805_init: dev and data are the two pointers, val the local
InitFrame(stage) ==
    [ stage |-> stage, sub |-> 1, dev |-> FALSE, data |-> FALSE, val |-> W(0),
      ret |-> NoRet ]

\* lines 149-151: the frame after pcidev_init
AfterProbe(found) ==
    IF found
    THEN [InitFrame("calloc") EXCEPT !.dev = TRUE]
    ELSE [InitFrame("done") EXCEPT !.ret = 1]

\* faulty variant: the result of calloc is not tested
AfterCalloc_unchecked(fr, ok) == [fr EXCEPT !.stage = "mcu_on", !.data = ok]

\* lines 153-157: the frame after calloc
AfterCalloc(fr, ok) ==
    IF ok
    THEN [fr EXCEPT !.stage = "mcu_on", !.data = TRUE]
    ELSE [InitFrame("done") EXCEPT !.ret = 1, !.dev = TRUE]

\* faulty variant: only bit 0 is set, the other bits of the low byte are kept
RmwValue_keepLowBits(val) == WordOr(val, W(1))

\* faulty variant: the value read is not merged in, 0x01 is written
RmwValue_constant(val) == W(1)

\* faulty variant: the value read is shifted up before 0x01 is put in
RmwValue_shifted(val) == WordOr(Shl8(val), W(1))

\* lines 167 and 170: (val & 0xffffff00) | 0x01
RmwValue(val) == WordOr(WordAnd(val, << 255, 255, 255, 0 >>), W(1))

\* lines 159-178: the accesses of the step of bring-up the frame is at
InitAccesses(fr, rd) ==
    CASE fr.stage = "mcu_on" -> vl805_mcu_active(1)
      [] fr.stage = "fwver" ->
             << [op |-> "rl", off |-> FwVersionOffset, val |-> rd, reg |-> 0] >>
      [] fr.stage = "ce_high" -> vl805_setregval(VL805_REG_SPI_CHIP_ENABLE_LEVEL, W(1))
      [] fr.stage = "wb_get" -> vl805_getregval(VL805_REG_WB_EN, rd)
      [] fr.stage = "wb_set" -> vl805_setregval(VL805_REG_WB_EN, RmwValue(fr.val))
      [] fr.stage = "sp_get" -> vl805_getregval(VL805_REG_STOP_POLLING, rd)
      [] fr.stage = "sp_set" -> vl805_setregval(VL805_REG_STOP_POLLING, RmwValue(fr.val))
      [] fr.stage = "transaction" ->
             vl805_setregval(VL805_REG_SPI_TRANSACTION, W(InitTransaction))
      [] fr.stage = "clk_div" -> vl805_setregval(VL805_REG_CLK_DIV, W(ClkDivValue))
      [] fr.stage = "mcu_off" -> vl805_mcu_active(0)

\* the steps of bring-up that read the device into val
InitReadStages == {"fwver", "wb_get", "sp_get"}

\* faulty variant: the clock divider is set before the priming transaction
InitNextStage_clkFirst(stage) ==
    CASE stage = "mcu_on" -> "fwver"
      [] stage = "fwver" -> "ce_high"
      [] stage = "ce_high" -> "wb_get"
      [] stage = "wb_get" -> "wb_set"
      [] stage = "wb_set" -> "sp_get"
      [] stage = "sp_get" -> "sp_set"
      [] stage = "sp_set" -> "clk_div"
      [] stage = "clk_div" -> "transaction"
      [] stage = "transaction" -> "mcu_off"
      [] stage = "mcu_off" -> "register"

\* faulty variant: the MCU is left active at the end of bring-up
InitNextStage_mcuLeftOn(stage) ==
    CASE stage = "mcu_on" -> "fwver"
      [] stage = "fwver" -> "ce_high"
      [] stage = "ce_high" -> "wb_get"
      [] stage = "wb_get" -> "wb_set"
      [] stage = "wb_set" -> "sp_get"
      [] stage = "sp_get" -> "sp_set"
      [] stage = "sp_set" -> "transaction"
      [] stage = "transaction" -> "clk_div"
      [] stage = "clk_div" -> "register"

\* lines 159-178: the step of bring-up that follows a step
InitNextStage(stage) ==
    CASE stage = "mcu_on" -> "fwver"
      [] stage = "fwver" -> "ce_high"
      [] stage = "ce_high" -> "wb_get"
      [] stage = "wb_get" -> "wb_set"
      [] stage = "wb_set" -> "sp_get"
      [] stage = "sp_get" -> "sp_set"
      [] stage = "sp_set" -> "transaction"
      [] stage = "transaction" -> "clk_div"
      [] stage = "clk_div" -> "mcu_off"
      [] stage = "mcu_off" -> "register"

\* what follows the last access of the step the frame is at
InitAdvance(fr, rd) ==
    [fr EXCEPT !.stage = InitNextStage(fr.stage), !.sub = 1,
               !.val = IF fr.stage \in InitReadStages THEN rd ELSE @]

\* the values the device may answer at the frame's next access
InitReads(fr) ==
    IF fr.stage \in InitReadStages /\ fr.sub = Len(InitAccesses(fr, W(0)))
    THEN RegReadSet ELSE {W(0)}

\* the frame after its next access
InitStep(fr, rd) ==
    IF fr.sub < Len(InitAccesses(fr, rd))
    THEN [fr EXCEPT !.sub = @ + 1]
    ELSE InitAdvance(fr, rd)

\* the steps of bring-up that access the device
InitAccessStages ==
    {"mcu_on", "fwver", "ce_high", "wb_get", "wb_set", "sp_get", "sp_set",
     "transaction", "clk_div", "mcu_off"}

(***************************************************************************)
(* State.                                                                  *)
(***************************************************************************)
VARIABLES
    call,        \* the entry point executing: "none", "init", "command", "shutdown"
    ini,         \* the frame of vl805_init
    cmd,         \* the frame of vl805_spi_send_command
    shut,        \* vl805_shutdown: [stage, ret]
    heap,        \* the struct vl805_spi_data: "none", "allocated", "freed"
    registered,  \* whether spi_master_vl805 is registered
    trace,       \* the accesses of the current (or last) invocation, in order
    prev,        \* the last access made before that invocation
    owner,       \* the entry point of that invocation
    mcu,         \* the byte last written to the MCU-active offset 0x43
    cmd2,        \* the frame of a second, overlapping invocation of the command
    hw           \* the device as the specifications that need it model it

vars == << call, ini, cmd, shut, heap, registered, trace, prev, owner, mcu, cmd2, hw >>

\* the device when a specification leaves it unmodelled: it answers a read
\* with any value
NoHw == [model |-> "none"]

\* the byte at 0x43 after the access acc
McuAfter(m, acc) ==
    IF acc.op = "wb" /\ acc.off = McuActiveOffset THEN acc.val[4] ELSE m

\* the framework calls command and shutdown only on a registered master,
\* and tears the session down once
SessionOpen == registered /\ shut.stage = "not_called"

\* faulty variant: the state block is freed before the MCU is switched off
ShutdownAfter_freeFirst(stage) ==
    CASE stage = "entry" -> "free"
      [] stage = "free" -> "mcu_off"
      [] stage = "mcu_off" -> "done"

\* lines 127-130: the step of vl805_shutdown that follows a step
ShutdownAfter(stage) ==
    CASE stage = "entry" -> "mcu_off"
      [] stage = "mcu_off" -> "free"
      [] stage = "free" -> "done"

\* the write buffers a caller may pass with writecnt = n
WriteArrs(n) == [1..n -> WriteByteSet]

\* the access log when a new invocation starts
StartTrace ==
    /\ trace' = << >>
    /\ prev' = IF trace = << >> THEN prev ELSE trace[Len(trace)]

Init ==
    /\ call = "none"
    /\ ini = InitFrame("not_called")
    /\ cmd = CmdIdle
    /\ shut = [stage |-> "not_called", ret |-> NoRet]
    /\ heap = "none"
    /\ registered = FALSE
    /\ trace = << >>
    /\ prev = NoAccess
    /\ owner = "none"
    /\ mcu \in {0, 1}
    /\ cmd2 = CmdIdle
    /\ hw = NoHw

\* lines 149-151: vl805_init is called; pcidev_init finds the device or not
InitProbe ==
    /\ call = "none"
    /\ ini.stage = "not_called"
    /\ StartTrace
    /\ \E found \in BOOLEAN : ini' = AfterProbe(found)
    /\ call' = IF ini'.stage = "done" THEN "none" ELSE "init"
    /\ owner' = "init"
    /\ UNCHANGED << cmd, shut, heap, registered, mcu, cmd2, hw >>

\* lines 153-157: calloc of the state block succeeds or not
InitAlloc ==
    /\ call = "init"
    /\ ini.stage = "calloc"
    /\ \E ok \in BOOLEAN :
          /\ ini' = AfterCalloc(ini, ok)
          /\ heap' = IF ok THEN "allocated" ELSE heap
    /\ call' = IF ini'.stage = "done" THEN "none" ELSE call
    /\ UNCHANGED << cmd, shut, registered, trace, prev, owner, mcu, cmd2, hw >>

\* lines 159-178: one configuration-space access of bring-up
InitAccess ==
    /\ call = "init"
    /\ ini.stage \in InitAccessStages
    /\ \E rd \in InitReads(ini) :
          /\ trace' = Append(trace, InitAccesses(ini, rd)[ini.sub])
          /\ mcu' = McuAfter(mcu, InitAccesses(ini, rd)[ini.sub])
          /\ ini' = InitStep(ini, rd)
    /\ UNCHANGED << call, cmd, shut, heap, registered, prev, owner, cmd2, hw >>

\* lines 180-181: register_spi_master succeeds (0) or fails; init returns
InitRegister ==
    /\ call = "init"
    /\ ini.stage = "register"
    /\ \E r \in {0, 1} :
          /\ ini' = [InitFrame("done") EXCEPT !.ret = r, !.dev = TRUE, !.data = TRUE]
          /\ registered' = (r = 0)
    /\ call' = "none"
    /\ UNCHANGED << cmd, shut, heap, trace, prev, owner, mcu, cmd2, hw >>

\* lines 65-86: the framework calls the registered command operation
CommandCall ==
    /\ call = "none"
    /\ SessionOpen
    /\ StartTrace
    /\ \E writecnt \in 0..MaxCnt, readcnt \in 0..MaxCnt :
          \E writearr \in WriteArrs(writecnt) :
             cmd' = CmdEntry(UIntModulus, writecnt, readcnt, writearr)
    /\ call' = "command"
    /\ owner' = "command"
    /\ UNCHANGED << ini, shut, heap, registered, mcu, cmd2, hw >>

\* lines 87-116: one configuration-space access of the command; the command
\* returns after its last access
CommandAccess ==
    /\ call = "command"
    /\ CmdRunning(cmd)
    /\ \E rd \in CmdReads(cmd) :
          /\ trace' = Append(trace, CmdAccesses(cmd, rd)[cmd.sub])
          /\ mcu' = McuAfter(mcu, CmdAccesses(cmd, rd)[cmd.sub])
          /\ cmd' = CmdStep(cmd, rd)
    /\ call' = IF CmdRunning(cmd') THEN call ELSE "none"
    /\ UNCHANGED << ini, shut, heap, registered, prev, owner, cmd2, hw >>

\* lines 125-127: the framework calls the registered shutdown operation
ShutdownCall ==
    /\ call = "none"
    /\ SessionOpen
    /\ StartTrace
    /\ shut' = [stage |-> ShutdownAfter("entry"), ret |-> NoRet]
    /\ call' = "shutdown"
    /\ owner' = "shutdown"
    /\ UNCHANGED << ini, cmd, heap, registered, mcu, cmd2, hw >>

\* line 128: vl805_mcu_active(vl805_data->dev, 0x0); line 130: return 0
\* once the last step is made
ShutdownAccess ==
    /\ call = "shutdown"
    /\ shut.stage = "mcu_off"
    /\ trace' = Append(trace, vl805_mcu_active(0)[1])
    /\ mcu' = McuAfter(mcu, vl805_mcu_active(0)[1])
    /\ shut' = [stage |-> ShutdownAfter(shut.stage),
                ret |-> IF ShutdownAfter(shut.stage) = "done" THEN 0 ELSE NoRet]
    /\ call' = IF shut'.stage = "done" THEN "none" ELSE call
    /\ UNCHANGED << ini, cmd, heap, registered, prev, owner, cmd2, hw >>

\* line 129: free(data); line 130: return 0 once the last step is made
ShutdownFree ==
    /\ call = "shutdown"
    /\ shut.stage = "free"
    /\ heap' = "freed"
    /\ shut' = [stage |-> ShutdownAfter(shut.stage),
                ret |-> IF ShutdownAfter(shut.stage) = "done" THEN 0 ELSE NoRet]
    /\ call' = IF shut'.stage = "done" THEN "none" ELSE call
    /\ UNCHANGED << ini, cmd, registered, trace, prev, owner, mcu, cmd2, hw >>

Next ==
    \/ InitProbe
    \/ InitAlloc
    \/ InitAccess
    \/ InitRegister
    \/ CommandCall
    \/ CommandAccess
    \/ ShutdownCall
    \/ ShutdownAccess
    \/ ShutdownFree

Spec == Init /\ [][Next]_vars

(***************************************************************************)
(* Reading the access log.                                                 *)
(***************************************************************************)
Max(S) == CHOOSE x \in S : \A y \in S : y <= x
\* the n-th smallest element of the set of positions S
Nth(S, n) == CHOOSE k \in S : Cardinality({i \in S : i < k}) = n - 1

\* the internal register the window points at when access k of t is made:
\* the value of the latest write to the index register
SelectedAt(t, k) ==
    LET S == {i \in 1..(k - 1) : t[i].op = "wl" /\ t[i].off = IndexOffset}
    IN IF S = {} THEN W(0) ELSE t[Max(S)].val

\* positions of the writes (reads) that reach internal register reg
RegWrites(t, reg) ==
    {k \in 1..Len(t) : t[k].op = "wl" /\ t[k].off = DataOffset /\ SelectedAt(t, k) = W(reg)}
RegReads(t, reg) ==
    {k \in 1..Len(t) : t[k].op = "rl" /\ t[k].off = DataOffset /\ SelectedAt(t, k) = W(reg)}
\* positions of the writes of value v to internal register reg
RegWritesOf(t, reg, v) == {k \in RegWrites(t, reg) : t[k].val = v}
\* the values written to (read from) internal register reg, in order
WrittenTo(t, reg) ==
    [n \in 1..Cardinality(RegWrites(t, reg)) |-> t[Nth(RegWrites(t, reg), n)].val]
ReadFrom(t, reg) ==
    [n \in 1..Cardinality(RegReads(t, reg)) |-> t[Nth(RegReads(t, reg), n)].val]

\* positions of every access of a chunk: index writes selecting OUTDATA,
\* TRANSACTION or INDATA and data accesses made while one of them is selected
ChunkRegs == {W(VL805_REG_SPI_OUTDATA), W(VL805_REG_SPI_TRANSACTION), W(VL805_REG_SPI_INDATA)}
ChunkAccesses(t) ==
    {k \in 1..Len(t) :
        \/ t[k].off = IndexOffset /\ t[k].val \in ChunkRegs
        \/ t[k].off = DataOffset /\ SelectedAt(t, k) \in ChunkRegs}

\* the log is that of a command, and the command has returned
CmdDone == owner = "command" /\ cmd.stage = "done"

(***************************************************************************)
(* The chunking as the specification states it, from writecnt (w) and      *)
(* readcnt (r) alone; chunks are numbered from 0, chunk c starts at        *)
(* logical position 4c.                                                    *)
(***************************************************************************)
NChunks(w, r) == (w + r + 3) \div 4
ChunkLenAt(w, r, c) == Min(4, w + r - 4 * c)
ChunkWriteAt(w, c) == Min(4, IF w - 4 * c < 0 THEN 0 ELSE w - 4 * c)

RECURSIVE RemainingReadsAt(_, _, _)
\* chunkRead = min(4 - chunkWrite, remainingReads)
ChunkReadAt(w, r, c) == Min(4 - ChunkWriteAt(w, c), RemainingReadsAt(w, r, c))
RemainingReadsAt(w, r, c) ==
    IF c = 0 THEN r ELSE RemainingReadsAt(w, r, c - 1) - ChunkReadAt(w, r, c - 1)

RECURSIVE Concat(_, _)
\* f[1] \o f[2] \o ... \o f[n]
Concat(f, n) == IF n = 0 THEN << >> ELSE Concat(f, n - 1) \o f[n]

(***************************************************************************)
(* C1.  Every call of the command writes 0 to SPI_CHIP_ENABLE_LEVEL        *)
(* exactly once and 1 exactly once, whatever writecnt and readcnt are      *)
(* (0 + 0 included); the write of 0 comes before every access to OUTDATA,  *)
(* TRANSACTION or INDATA of the call and the write of 1 after all of them. *)
(***************************************************************************)
C1_ChipSelectBracketsChunks ==
    owner = "command" =>
        LET lo == RegWritesOf(trace, VL805_REG_SPI_CHIP_ENABLE_LEVEL, W(0))
            hi == RegWritesOf(trace, VL805_REG_SPI_CHIP_ENABLE_LEVEL, W(1))
        IN /\ RegWrites(trace, VL805_REG_SPI_CHIP_ENABLE_LEVEL) = lo \cup hi
           /\ Cardinality(lo) <= 1
           /\ Cardinality(hi) <= 1
           /\ \A k \in ChunkAccesses(trace) :
                 /\ \E a \in lo : a < k
                 /\ \A b \in hi : k < b
           /\ cmd.stage = "done" => Cardinality(lo) = 1 /\ Cardinality(hi) = 1

\* a call of three chunks has returned
C1_Witness ==
    /\ CmdDone
    /\ cmd.writecnt = 5 /\ cmd.readcnt = 4
    /\ Cardinality(RegReads(trace, VL805_REG_SPI_INDATA)) = 3

(***************************************************************************)
(* C2.  A call of the command with writecnt and readcnt writes SPI_OUTDATA *)
(* exactly ceil((writecnt + readcnt) / 4) times, and writes                *)
(* SPI_TRANSACTION and reads SPI_INDATA as many times.                     *)
(***************************************************************************)
C2_ChunkCount ==
    CmdDone =>
        LET n == NChunks(cmd.writecnt, cmd.readcnt)
        IN /\ Cardinality(RegWrites(trace, VL805_REG_SPI_OUTDATA)) = n
           /\ Cardinality(RegWrites(trace, VL805_REG_SPI_TRANSACTION)) = n
           /\ Cardinality(RegReads(trace, VL805_REG_SPI_INDATA)) = n
           /\ RegReads(trace, VL805_REG_SPI_OUTDATA) = {}
           /\ RegReads(trace, VL805_REG_SPI_TRANSACTION) = {}
           /\ RegWrites(trace, VL805_REG_SPI_INDATA) = {}

\* a call whose last chunk is partial has returned: 5 bytes, 2 chunks
C2_Witness ==
    /\ CmdDone
    /\ cmd.writecnt + cmd.readcnt = 5
    /\ Cardinality(RegWrites(trace, VL805_REG_SPI_OUTDATA)) = 2

(***************************************************************************)
(* C3.  The result buffer holds exactly readcnt bytes, at positions        *)
(* 0..readcnt-1: the concatenation, chunk after chunk, of the bytes        *)
(* (INDATA >> 8*(i-1)) & 0xFF for i = chunkRead down to 1.  With           *)
(* writecnt = 4, readcnt = 4 it is the second INDATA word, most            *)
(* significant byte first; with writecnt = 0, readcnt = 1 it is the low    *)
(* byte of INDATA.                                                         *)
(***************************************************************************)
\* byte i (1 = least significant) of the word x, as (x >> 8*(i-1)) & 0xFF
WordByte(x, i) == x[5 - i]
\* the bytes chunk c delivers from the word x it read
ChunkBytes(x, n) == [k \in 1..n |-> WordByte(x, n + 1 - k)]
\* the result the specification expects from the words read, in order
ExpectedRead(w, r, words) ==
    Concat([c \in 1..Len(words) |-> ChunkBytes(words[c], ChunkReadAt(w, r, c - 1))],
           Len(words))

C3_ResultBuffer ==
    CmdDone =>
        LET words == ReadFrom(trace, VL805_REG_SPI_INDATA)
            want == ExpectedRead(cmd.writecnt, cmd.readcnt, words)
        IN /\ Len(want) = cmd.readcnt
           /\ cmd.ridx = 0..(cmd.readcnt - 1)
           /\ \A k \in DOMAIN cmd.readarr :
                 cmd.readarr[k] = IF k < cmd.readcnt THEN want[k + 1] ELSE Unwritten
           /\ cmd.writecnt = 4 /\ cmd.readcnt = 4 =>
                 [k \in 1..4 |-> cmd.readarr[k - 1]] = words[2]
           /\ cmd.writecnt = 0 /\ cmd.readcnt = 1 =>
                 cmd.readarr[0] = words[1][4]

\* a call with a mixed chunk followed by a read-only chunk has returned
C3_Witness ==
    /\ CmdDone
    /\ cmd.writecnt = 1 /\ cmd.readcnt = 5
    /\ ReadFrom(trace, VL805_REG_SPI_INDATA) = << <<17, 34, 51, 68>>, <<165, 0, 255, 128>> >>
    /\ [k \in 1..5 |-> cmd.readarr[k - 1]] = << 34, 51, 68, 255, 128 >>

(***************************************************************************)
(* C4.  The word written to SPI_OUTDATA for the chunk at position j = 4c   *)
(* is the sum over i < chunkLen of b_i << 8*(chunkLen-1-i), where b_i is   *)
(* writeBytes[j+i] for i < chunkWrite and 0 otherwise: the write bytes go  *)
(* out in source order, most significant first, each exactly once, and a   *)
(* chunk without write bytes writes 0.                                     *)
(***************************************************************************)
\* the word of chunk c: the byte of significance p is b_(chunkLen-1-p)
ExpectedOutdata(w, r, writearr, c) ==
    LET len == ChunkLenAt(w, r, c)
        nw == ChunkWriteAt(w, c)
        b(i) == IF i < nw THEN writearr[4 * c + i + 1] ELSE 0
    IN [k \in 1..4 |-> IF 4 - k < len THEN b(len - 1 - (4 - k)) ELSE 0]
\* the nw bytes a chunk of len bytes sends first, read back from its word x
SentBytes(x, len, nw) == [i \in 1..nw |-> x[4 - len + i]]

C4_OutdataPacking ==
    owner = "command" =>
        LET out == WrittenTo(trace, VL805_REG_SPI_OUTDATA)
            w == cmd.writecnt
            r == cmd.readcnt
        IN /\ \A c \in 1..Len(out) :
                 /\ out[c] = ExpectedOutdata(w, r, cmd.writearr, c - 1)
                 /\ ChunkWriteAt(w, c - 1) = 0 => out[c] = W(0)
           /\ cmd.stage = "done" =>
                 Concat([c \in 1..Len(out) |->
                            SentBytes(out[c], ChunkLenAt(w, r, c - 1), ChunkWriteAt(w, c - 1))],
                        Len(out)) = cmd.writearr

\* five write bytes and two read bytes: a full chunk, then a mixed chunk of
\* three bytes whose write byte is the most significant of the three
C4_Witness ==
    /\ CmdDone
    /\ cmd.writearr = << 3, 159, 159, 3, 159 >> /\ cmd.readcnt = 2
    /\ WrittenTo(trace, VL805_REG_SPI_OUTDATA) = << <<3, 159, 159, 3>>, <<0, 159, 0, 0>> >>

(***************************************************************************)
(* C5.  With writecnt = 1 and readcnt = 0 the command issues one chunk of  *)
(* chunkLen = 1, writes the control word 0x580 | (1 << 3) to               *)
(* SPI_TRANSACTION and extracts no byte.  As claimed, the write byte is in *)
(* bits 31..24 of the word written to SPI_OUTDATA.                         *)
(***************************************************************************)
OneByteWrite == CmdDone /\ cmd.writecnt = 1 /\ cmd.readcnt = 0
OneByteWriteShape ==
    /\ Cardinality(RegWrites(trace, VL805_REG_SPI_OUTDATA)) = 1
    /\ cmd.curtotalcnt = 1
    /\ WrittenTo(trace, VL805_REG_SPI_TRANSACTION) = << W(1416) >>
    /\ Cardinality(RegReads(trace, VL805_REG_SPI_INDATA)) = 1
    /\ cmd.ridx = {}
    /\ \A k \in DOMAIN cmd.readarr : cmd.readarr[k] = Unwritten

C5_Original_ByteInBits31to24 ==
    OneByteWrite =>
        /\ OneByteWriteShape
        /\ WrittenTo(trace, VL805_REG_SPI_OUTDATA)[1][1] = cmd.writearr[1]

(***************************************************************************)
(* C5, amended.  With writecnt = 1 and readcnt = 0 the command issues one  *)
(* chunk of chunkLen = 1, writes 0x580 | (1 << 3) to SPI_TRANSACTION and   *)
(* extracts no byte; the write byte is the whole word written to           *)
(* SPI_OUTDATA: it is in bits 7..0 and bits 31..8 are 0.                   *)
(***************************************************************************)
C5_ByteInBits7to0 ==
    OneByteWrite =>
        /\ OneByteWriteShape
        /\ WrittenTo(trace, VL805_REG_SPI_OUTDATA) = << << 0, 0, 0, cmd.writearr[1] >> >>

\* the one-byte command 0x9f has returned
C5_Witness == OneByteWrite /\ cmd.writearr = << 159 >>

(***************************************************************************)
(* C6.  As claimed: during bring-up the value written back to WB_EN, and   *)
(* to STOP_POLLING, has bit 0 set and every bit 1..31 equal to the same    *)
(* bit of the value v just read from that register.                        *)
(***************************************************************************)
RmwRegs == {VL805_REG_WB_EN, VL805_REG_STOP_POLLING}
\* the position of the latest read of reg before position k (0 if none)
LastReadBefore(t, reg, k) ==
    LET S == {i \in RegReads(t, reg) : i < k} IN IF S = {} THEN 0 ELSE Max(S)
\* the pairs << v, x >> of a value x bring-up has written to a register of
\* RmwRegs and the value v it read from that register just before
RmwPairs ==
    IF owner = "init"
    THEN UNION { {<< trace[LastReadBefore(trace, reg, k)].val, trace[k].val >> :
                       k \in {i \in RegWrites(trace, reg) :
                                 LastReadBefore(trace, reg, i) > 0}} :
                 reg \in RmwRegs }
    ELSE {}
\* bring-up writes a register of RmwRegs only after reading it
RmwReadFirst ==
    owner = "init" =>
        \A reg \in RmwRegs : \A k \in RegWrites(trace, reg) :
            LastReadBefore(trace, reg, k) > 0

OnlyBit0Changed(v, x) ==
    /\ WordBit(x, 0) = 1
    /\ \A b \in 1..31 : WordBit(x, b) = WordBit(v, b)

C6_Original_OnlyBit0Changes ==
    RmwReadFirst /\ \A p \in RmwPairs : OnlyBit0Changed(p[1], p[2])

(***************************************************************************)
(* C6, amended.  During bring-up the value written back to WB_EN, and to   *)
(* STOP_POLLING, has its low byte equal to 0x01 (bit 0 set, bits 1..7      *)
(* cleared) and every bit 8..31 equal to the same bit of the value v just  *)
(* read from that register: the write replaces the low byte.               *)
(***************************************************************************)
LowByteReplaced(v, x) ==
    /\ WordBit(x, 0) = 1
    /\ \A b \in 1..7 : WordBit(x, b) = 0
    /\ \A b \in 8..31 : WordBit(x, b) = WordBit(v, b)

C6_LowByteReplaced ==
    RmwReadFirst /\ \A p \in RmwPairs : LowByteReplaced(p[1], p[2])

\* STOP_POLLING read as 0xdeadbe02 has been written back as 0xdeadbe01
C6_Witness ==
    /\ owner = "init"
    /\ ReadFrom(trace, VL805_REG_STOP_POLLING) = << <<222, 173, 190, 2>> >>
    /\ WrittenTo(trace, VL805_REG_STOP_POLLING) = << <<222, 173, 190, 1>> >>

(***************************************************************************)
(* C7.  A bring-up that found the device and allocated its state block     *)
(* makes exactly these accesses, in this order: MCU-active := 1; read of   *)
(* the firmware version at 0x50; CHIP_ENABLE_LEVEL := 1; read, then write, *)
(* of WB_EN; read, then write, of STOP_POLLING; SPI_TRANSACTION := 0x5a0;  *)
(* CLK_DIV := 0x0a; MCU-active := 0.  The SPI master is registered only    *)
(* after the last of them.                                                 *)
(***************************************************************************)
Fixed(op, off, val) == [op |-> op, off |-> off, fixed |-> TRUE, val |-> val]
Free(op, off) == [op |-> op, off |-> off, fixed |-> FALSE, val |-> W(0)]
BringUpPattern ==
    << Fixed("wb", McuActiveOffset, W(1)),
       Free("rl", FwVersionOffset),
       Fixed("wl", IndexOffset, W(VL805_REG_SPI_CHIP_ENABLE_LEVEL)),
       Fixed("wl", DataOffset, W(1)),
       Fixed("wl", IndexOffset, W(VL805_REG_WB_EN)),
       Free("rl", DataOffset),
       Fixed("wl", IndexOffset, W(VL805_REG_WB_EN)),
       Free("wl", DataOffset),
       Fixed("wl", IndexOffset, W(VL805_REG_STOP_POLLING)),
       Free("rl", DataOffset),
       Fixed("wl", IndexOffset, W(VL805_REG_STOP_POLLING)),
       Free("wl", DataOffset),
       Fixed("wl", IndexOffset, W(VL805_REG_SPI_TRANSACTION)),
       Fixed("wl", DataOffset, W(1440)),
       Fixed("wl", IndexOffset, W(VL805_REG_CLK_DIV)),
       Fixed("wl", DataOffset, W(10)),
       Fixed("wb", McuActiveOffset, W(0)) >>
Matches(a, p) == a.op = p.op /\ a.off = p.off /\ (p.fixed => a.val = p.val)
\* vl805_init got past calloc and has made its last access
BringUpComplete == owner = "init" /\ ini.data /\ ini.stage \in {"register", "done"}

C7_BringUpOrder ==
    /\ owner = "init" =>
          /\ Len(trace) <= Len(BringUpPattern)
          /\ \A k \in 1..Len(trace) : Matches(trace[k], BringUpPattern[k])
    /\ BringUpComplete => Len(trace) = Len(BringUpPattern)
    /\ registered /\ owner = "init" => BringUpComplete
    /\ call = "init" => ~registered

\* a bring-up has returned success and the master is registered
C7_Witness ==
    /\ BringUpComplete /\ ini.stage = "done" /\ ini.ret = 0 /\ registered
    /\ Len(trace) = 17

(***************************************************************************)
(* C8.  Whatever init, command and shutdown calls are made, one at a time, *)
(* every access to the data offset 0x7c comes right after a write to the   *)
(* index offset 0x78 that carries the address of the register meant, and   *)
(* every write to 0x78 is followed at once by exactly one access to 0x7c.  *)
(***************************************************************************)
\* the log of the current invocation, after the last access made before it
Bus == << prev >> \o trace

C8_IndexThenData ==
    /\ \A k \in 1..Len(trace) :
          /\ trace[k].off = DataOffset =>
                /\ Bus[k].op = "wl"
                /\ Bus[k].off = IndexOffset
                /\ Bus[k].val = W(trace[k].reg)
          /\ Bus[k].off = IndexOffset =>
                /\ Bus[k].op = "wl"
                /\ trace[k].off = DataOffset
    /\ call = "none" /\ trace # << >> => trace[Len(trace)].off # IndexOffset
    /\ call = "none" => prev.off # IndexOffset

\* a command has read SPI_INDATA right after shutting the previous command's
\* chip-select: the window was used across two invocations
C8_Witness ==
    /\ owner = "command"
    /\ prev = vl805_setregval(VL805_REG_SPI_CHIP_ENABLE_LEVEL, W(1))[2]
    /\ RegReads(trace, VL805_REG_SPI_INDATA) # {}

(***************************************************************************)
(* C9.  Every invocation of the command returns 0, whatever writecnt,      *)
(* readcnt, the write buffer and the values the device returns are, and it *)
(* returns only after writing the chip-select deassert.                    *)
(***************************************************************************)
C9_AlwaysReturnsZero ==
    /\ owner = "command" /\ call # "command" =>
          /\ cmd.stage = "done"
          /\ cmd.ret = 0
          /\ trace # << >>
          /\ Len(trace) \in RegWritesOf(trace, VL805_REG_SPI_CHIP_ENABLE_LEVEL, W(1))
    /\ call = "command" => cmd.ret = NoRet /\ CmdRunning(cmd)

\* a command that read bytes from the device has returned
C9_Witness ==
    /\ CmdDone /\ call = "none"
    /\ cmd.readcnt = 3 /\ cmd.readpos = 3
    /\ cmd.ret = 0

(***************************************************************************)
(* C10.  When the device is not found, or is found but the state block     *)
(* cannot be allocated, init returns a failure, no SPI master is           *)
(* registered and the device has not been accessed: no MCU-active write,   *)
(* no firmware-version read, no index or data access.                      *)
(***************************************************************************)
\* vl805_init returned without a state block
BringUpAborted == ini.stage = "done" /\ ~ini.data

C10_FailureLeavesDeviceUntouched ==
    /\ BringUpAborted =>
          /\ ini.ret # 0
          /\ call = "none"
          /\ ~registered
          /\ heap = "none"
          /\ trace = << >>
          /\ prev = NoAccess
    /\ call = "init" /\ ~ini.data => trace = << >> /\ ~registered

\* the device was found and calloc failed
C10_Witness == BringUpAborted /\ ini.dev

(***************************************************************************)
(* C11.  Whatever the framework issues on one device (init, then command   *)
(* calls, then shutdown), no device access is made through the state block *)
(* once shutdown has freed it, and the block is freed exactly once: only   *)
(* while allocated, and it is freed when shutdown has returned.            *)
(***************************************************************************)
\* this step makes a device access through the struct vl805_spi_data
\* (data->dev in the command, vl805_data->dev in shutdown)
AccessThroughBlock == owner' \in {"command", "shutdown"} /\ Len(trace') > Len(trace)
\* this step is the free(data) of shutdown
FreeStep == shut.stage = "free" /\ shut' # shut

C11_BlockUsedOnlyWhileAllocated ==
    [][ /\ AccessThroughBlock => heap = "allocated"
        /\ FreeStep => heap = "allocated" /\ heap' = "freed"
        /\ heap' # heap => FreeStep \/ (heap = "none" /\ heap' = "allocated")
        /\ shut'.stage = "done" => heap' = "freed" ]_vars

\* commands have run and shutdown has returned, the block freed
C11_Witness ==
    /\ shut.stage = "done" /\ shut.ret = 0 /\ heap = "freed"
    /\ cmd.stage = "done"
    /\ mcu = 0

(***************************************************************************)
(* C13.  In every iteration of the chunk loop chunkWrite + chunkRead =     *)
(* chunkLen and 1 <= chunkLen <= 4, and what was left to write and to read *)
(* when the iteration began adds up to writecnt + readcnt - j; when the    *)
(* loop is left nothing is left to write or to read and the result-buffer  *)
(* position is readcnt.                                                    *)
(***************************************************************************)
\* the command is inside an iteration: lines 90-101 are done, 108-111 not yet
InChunk == owner = "command" /\ cmd.stage \in {"outdata", "transaction", "indata"}
\* the command has left the loop
LoopLeft == owner = "command" /\ cmd.stage \in {"ce_high", "done"}

C13_LoopInvariant ==
    /\ InChunk =>
          /\ cmd.curwritecnt + cmd.curreadcnt = cmd.curtotalcnt
          /\ 1 <= cmd.curtotalcnt /\ cmd.curtotalcnt <= 4
          \* writes_left is already counted down by curwritecnt, reads_left not yet
          /\ (cmd.writes_left + cmd.curwritecnt) + cmd.reads_left
                = cmd.writecnt + cmd.readcnt - cmd.j
          /\ cmd.j % 4 = 0
          /\ cmd.readpos = cmd.readcnt - cmd.reads_left
    /\ LoopLeft =>
          /\ cmd.writes_left = 0
          /\ cmd.reads_left = 0
          /\ cmd.readpos = cmd.readcnt

\* the second iteration of a call is a mixed chunk: 1 byte to write, 2 to read
C13_Witness ==
    /\ InChunk /\ cmd.j = 4
    /\ cmd.curwritecnt = 1 /\ cmd.curreadcnt = 2 /\ cmd.curtotalcnt = 3

(***************************************************************************)
(* C14.  The accesses of a chunk are, in this order and with no access of  *)
(* another chunk between them: write of SPI_OUTDATA, write of              *)
(* SPI_TRANSACTION, read of SPI_INDATA; the value written to               *)
(* SPI_TRANSACTION is 0x580 | (chunkLen << 3), one of 0x588, 0x590, 0x598, *)
(* 0x5a0.                                                                  *)
(***************************************************************************)
\* what the n-th access of the chunks of a call must be (n from 0)
ChunkSlot(n, a, w, r) ==
    LET slot == n % 6
        len == ChunkLenAt(w, r, n \div 6)
    IN CASE slot = 0 -> a.op = "wl" /\ a.off = IndexOffset /\ a.val = W(VL805_REG_SPI_OUTDATA)
         [] slot = 1 -> a.op = "wl" /\ a.off = DataOffset
         [] slot = 2 -> a.op = "wl" /\ a.off = IndexOffset /\ a.val = W(VL805_REG_SPI_TRANSACTION)
         [] slot = 3 -> /\ a.op = "wl" /\ a.off = DataOffset
                        /\ a.val = W(1408 + 8 * len)
                        /\ a.val \in {W(1416), W(1424), W(1432), W(1440)}
         [] slot = 4 -> a.op = "wl" /\ a.off = IndexOffset /\ a.val = W(VL805_REG_SPI_INDATA)
         [] slot = 5 -> a.op = "rl" /\ a.off = DataOffset

C14_ChunkAccessOrder ==
    owner = "command" =>
        LET S == ChunkAccesses(trace)
        IN \A n \in 1..Cardinality(S) :
              /\ ChunkSlot(n - 1, trace[Nth(S, n)], cmd.writecnt, cmd.readcnt)
              /\ n > 1 => Nth(S, n) = Nth(S, n - 1) + 1

\* a call of two chunks, of 4 bytes and of 1 byte, has returned
C14_Witness ==
    /\ CmdDone
    /\ WrittenTo(trace, VL805_REG_SPI_TRANSACTION) = << W(1440), W(1416) >>

(***************************************************************************)
(* C15.  During bring-up bits 8..31 of the value written to WB_EN equal    *)
(* bits 8..31 of the value last read from WB_EN, and likewise for          *)
(* STOP_POLLING.                                                           *)
(***************************************************************************)
C15_UpperBitsPreserved ==
    /\ RmwReadFirst
    /\ \A p \in RmwPairs : \A b \in 8..31 : WordBit(p[2], b) = WordBit(p[1], b)

\* WB_EN read as 0x123456ff has been written back with 0x123456 on top
C15_Witness ==
    /\ owner = "init"
    /\ ReadFrom(trace, VL805_REG_WB_EN) = << <<18, 52, 86, 255>> >>
    /\ Len(WrittenTo(trace, VL805_REG_WB_EN)) = 1
    /\ SubSeq(WrittenTo(trace, VL805_REG_WB_EN)[1], 1, 3) = << 18, 52, 86 >>

(***************************************************************************)
(* C16.  A chunk with chunkWrite > 0 and chunkRead > 0 occurs only if      *)
(* writecnt mod 4 # 0; when writecnt is a multiple of 4 every chunk is     *)
(* all-write or all-read and the all-write chunks come before the all-read *)
(* chunks; a call has at most one mixed chunk.  The chunks of a call are   *)
(* told apart by j, which grows by 4 from chunk to chunk: a mixed chunk is *)
(* the one at j = 4 * (writecnt div 4), an all-write chunk has             *)
(* j < writecnt, an all-read chunk j >= writecnt.                          *)
(***************************************************************************)
MixedChunk == InChunk /\ cmd.curwritecnt > 0 /\ cmd.curreadcnt > 0

ChunkKinds ==
    InChunk =>
        /\ MixedChunk => cmd.writecnt % 4 # 0 /\ cmd.j = 4 * (cmd.writecnt \div 4)
        /\ cmd.writecnt % 4 = 0 =>
              /\ ~MixedChunk
              /\ cmd.curwritecnt > 0 <=> cmd.j < cmd.writecnt
              /\ cmd.curreadcnt > 0 <=> cmd.j >= cmd.writecnt

\* within a call j only moves from one chunk to the next one, 4 further
ChunksInOrder == (owner' = "command" /\ cmd.stage # "idle" /\ cmd'.j # cmd.j
                    /\ call = "command") => cmd'.j = cmd.j + 4

C16_MixedChunkOnlyAtBoundary == []ChunkKinds /\ [][ChunksInOrder]_vars

\* writecnt = 5: the chunk at j = 4 carries the last write byte and reads
C16_Witness ==
    /\ MixedChunk /\ cmd.writecnt = 5 /\ cmd.readcnt = 5
    /\ cmd.j = 4 /\ cmd.curwritecnt = 1 /\ cmd.curreadcnt = 3

(***************************************************************************)
(* C18.  Every index at which the command reads the write buffer is        *)
(* < writecnt and every index at which it writes the result buffer is      *)
(* < readcnt; with writecnt = 0 the write buffer is never read and with    *)
(* readcnt = 0 the result buffer is never written.                         *)
(***************************************************************************)
C18_BufferIndicesInBounds ==
    owner = "command" =>
        /\ \A i \in cmd.widx : i < cmd.writecnt
        /\ \A i \in cmd.ridx : i < cmd.readcnt
        /\ cmd.writecnt = 0 => cmd.widx = {}
        /\ cmd.readcnt = 0 => cmd.ridx = {}

(***************************************************************************)
(* C20.  Every index/data access and the firmware-version read of bring-up *)
(* is made while the byte last written to the MCU-active offset is 1, and  *)
(* in every state after bring-up has finished (before, during and after    *)
(* commands, after shutdown) the byte last written there is 0.             *)
(***************************************************************************)
\* the byte last written to offset 0x43 before the i-th access of the log,
\* -1 if the log has no such write
McuBefore(t, i) ==
    LET S == { k \in 1..(i - 1) : t[k].op = "wb" /\ t[k].off = McuActiveOffset }
    IN IF S = {} THEN 0 - 1 ELSE t[Max(S)].val[4]

\* bring-up has made its last access (line 178)
BringUpFinished == ini.data /\ ini.stage \in {"register", "done"}

C20_McuActiveOnlyWhileConfiguring ==
    /\ owner = "init" =>
          \A i \in 1..Len(trace) :
             trace[i].off \in {IndexOffset, DataOffset, FwVersionOffset}
                => McuBefore(trace, i) = 1
    /\ (ini.stage \in InitAccessStages \ {"mcu_on"}) => mcu = 1
    /\ BringUpFinished => mcu = 0

\* a command is in a chunk and the MCU is inactive
C20_Witness ==
    /\ BringUpFinished /\ InChunk /\ mcu = 0
    /\ cmd.stage = "indata"

(***************************************************************************)
(* The bring-up sequence run twice against a device of register cells      *)
(***************************************************************************)
\* the registers bring-up reaches through the index/data pair
CellRegs ==
    { VL805_REG_SPI_CHIP_ENABLE_LEVEL, VL805_REG_WB_EN, VL805_REG_STOP_POLLING,
      VL805_REG_SPI_TRANSACTION, VL805_REG_CLK_DIV }

\* the contents the cells may have before bring-up
CellInit ==
    [ CellRegs -> RegReadSet \cup {W(0), W(1), W(ClkDivValue)} ] 

\* the cell the latched index selects, if it is one of the cells
SelectedCells(dv) == { r \in CellRegs : W(r) = dv.index }

\* lines 58-62, 160: what the device answers to a read at a config offset:
\* the data offset yields the cell the index selects, 0x50 the version word
DeviceRead(dv, off) ==
    IF off = DataOffset /\ SelectedCells(dv) # {}
    THEN dv.cells[CHOOSE r \in SelectedCells(dv) : TRUE]
    ELSE IF off = FwVersionOffset THEN dv.fwver ELSE W(0)

\* lines 52-56: what a write does to the device: the index offset latches
\* the register address, the data offset stores into the selected cell
DeviceWrite(dv, acc) ==
    IF acc.op = "wl" /\ acc.off = IndexOffset
    THEN [dv EXCEPT !.index = acc.val]
    ELSE IF acc.op = "wl" /\ acc.off = DataOffset /\ SelectedCells(dv) # {}
         THEN [dv EXCEPT !.cells[CHOOSE r \in SelectedCells(dv) : TRUE] = acc.val]
         ELSE dv

\* lines 146-157: vl805_init has found the device and allocated its block
BringUpEntry == AfterCalloc(AfterProbe(TRUE), TRUE)

InitTwice ==
    /\ call = "init"
    /\ ini = BringUpEntry
    /\ cmd = CmdIdle
    /\ cmd2 = CmdIdle
    /\ shut = [stage |-> "not_called", ret |-> NoRet]
    /\ heap = "allocated"
    /\ registered = FALSE
    /\ trace = << >>
    /\ prev = NoAccess
    /\ owner = "init"
    /\ mcu \in {0, 1}
    /\ \E cells \in CellInit :
          /\ cells[VL805_REG_SPI_CHIP_ENABLE_LEVEL] \in {W(0), W(1)}
          /\ cells[VL805_REG_SPI_TRANSACTION] \in {W(0), <<18, 52, 86, 255>>}
          /\ cells[VL805_REG_CLK_DIV] \in {W(1), W(ClkDivValue)}
          /\ cells[VL805_REG_WB_EN] \in RegReadSet
          /\ cells[VL805_REG_STOP_POLLING] \in RegReadSet
          /\ hw = [ model |-> "cells", cells |-> cells, index |-> W(0),
                    fwver |-> <<18, 52, 86, 255>>, runs |-> 0,
                    first |-> << cells, mcu >> ]

\* lines 159-178: one access of bring-up, answered and absorbed by the cells
TwiceAccess ==
    /\ call = "init"
    /\ ini.stage \in InitAccessStages
    /\ LET probe == InitAccesses(ini, W(0))[ini.sub]
           rd == DeviceRead(hw, probe.off)
           acc == InitAccesses(ini, rd)[ini.sub]
       IN /\ trace' = Append(trace, acc)
          /\ mcu' = McuAfter(mcu, acc)
          /\ hw' = DeviceWrite(hw, acc)
          /\ ini' = InitStep(ini, rd)
    /\ UNCHANGED << call, cmd, shut, heap, registered, prev, owner, cmd2 >>

\* lines 159-178 are entered again once the first run has made its last access
TwiceRestart ==
    /\ call = "init"
    /\ ini.stage = "register"
    /\ hw.runs = 0
    /\ hw' = [hw EXCEPT !.runs = 1, !.first = << hw.cells, mcu >>]
    /\ ini' = BringUpEntry
    /\ StartTrace
    /\ UNCHANGED << call, cmd, shut, heap, registered, owner, mcu, cmd2 >>

\* the second run has made its last access
TwiceFinish ==
    /\ call = "init"
    /\ ini.stage = "register"
    /\ hw.runs = 1
    /\ hw' = [hw EXCEPT !.runs = 2]
    /\ ini' = [ini EXCEPT !.stage = "done", !.ret = 0]
    /\ call' = "none"
    /\ UNCHANGED << cmd, shut, heap, registered, trace, prev, owner, mcu, cmd2 >>

NextTwice ==
    \/ TwiceAccess
    \/ TwiceRestart
    \/ TwiceFinish

SpecTwice == InitTwice /\ [][NextTwice]_vars

(***************************************************************************)
(* C12.  With every register a cell whose read returns the last value      *)
(* written and arbitrary contents at the start, the bring-up sequence run  *)
(* twice in a row leaves MCU-active, CHIP_ENABLE_LEVEL, WB_EN,             *)
(* STOP_POLLING, SPI_TRANSACTION and CLK_DIV as one run left them.         *)
(***************************************************************************)
C12_BringUpIdempotent ==
    hw.runs = 2 => << hw.cells, mcu >> = hw.first

\* both runs are done on a device whose WB_EN held 0xdeadbe02 and is 0xdeadbe01
\* since the first run
C12_Witness ==
    /\ hw.runs = 2
    /\ hw.first[1][VL805_REG_WB_EN] = <<222, 173, 190, 1>>
    /\ hw.cells[VL805_REG_WB_EN] = <<222, 173, 190, 1>>
    /\ hw.cells[VL805_REG_STOP_POLLING] = <<18, 52, 86, 1>>
    /\ hw.cells[VL805_REG_CLK_DIV] = W(ClkDivValue)
    /\ mcu = 0

(***************************************************************************)
(* Two invocations of the command on one device, their accesses            *)
(* interleaved one configuration-space access at a time                    *)
(***************************************************************************)
Frame(c) == IF c = 1 THEN cmd ELSE cmd2
Other(c) == IF c = 1 THEN cmd2 ELSE cmd

\* lines 52-62 as the device sees them: the index offset latches a register
\* address (by: the invocation that wrote it), a data-offset access lands on
\* the latched register whatever register the caller meant (acc.reg).
\* victim/selector record the first access that landed on another register
\* than meant; afterDeassert, a chunk triggered while chip-select is high.
BusAfter(b, c, acc) ==
    IF acc.off = IndexOffset
    THEN [b EXCEPT !.index = acc.val, !.by = c]
    ELSE LET wrong == b.index # W(acc.reg)
         IN [b EXCEPT
               !.ce = IF acc.op = "wl" /\ b.index = W(VL805_REG_SPI_CHIP_ENABLE_LEVEL)
                      THEN acc.val[4] ELSE @,
               !.victim = IF wrong /\ @ = 0 THEN c ELSE @,
               !.selector = IF wrong /\ b.victim = 0 THEN b.by ELSE @,
               !.afterDeassert = @ \/ ( /\ acc.op = "wl"
                                        /\ acc.reg = VL805_REG_SPI_TRANSACTION
                                        /\ b.ce = 1 )]

\* lines 146-182 have run: the master is registered, chip-select is high
\* (line 163), the index last selected CLK_DIV (line 174), the MCU is off
InitInterleaved ==
    /\ call = "none"
    /\ ini = [InitFrame("done") EXCEPT !.ret = 0, !.dev = TRUE, !.data = TRUE]
    /\ cmd = CmdIdle
    /\ cmd2 = CmdIdle
    /\ shut = [stage |-> "not_called", ret |-> NoRet]
    /\ heap = "allocated"
    /\ registered = TRUE
    /\ trace = << >>
    /\ prev = NoAccess
    /\ owner = "init"
    /\ mcu = 0
    /\ hw = [ model |-> "bus", index |-> W(VL805_REG_CLK_DIV), by |-> 0, ce |-> 1,
              victim |-> 0, selector |-> 0, afterDeassert |-> FALSE,
              overlap |-> FALSE ]

\* lines 65-86: an invocation is entered, perhaps while the other is under way
PairCall(c) ==
    /\ SessionOpen
    /\ Frame(c).stage = "idle"
    /\ \E writecnt \in 0..MaxPairCnt, readcnt \in 0..MaxPairCnt :
          \E writearr \in WriteArrs(writecnt) :
             LET fr == CmdEntry(UIntModulus, writecnt, readcnt, writearr)
             IN /\ cmd' = IF c = 1 THEN fr ELSE cmd
                /\ cmd2' = IF c = 2 THEN fr ELSE cmd2
    /\ hw' = [hw EXCEPT !.overlap = @ \/ CmdRunning(Other(c))]
    /\ call' = "command"
    /\ owner' = "command"
    /\ UNCHANGED << ini, shut, heap, registered, trace, prev, mcu >>

\* lines 87-116: an invocation makes its next configuration-space access
PairAccess(c) ==
    /\ call = "command"
    /\ CmdRunning(Frame(c))
    /\ \E rd \in CmdReads(Frame(c)) :
          LET acc == CmdAccesses(Frame(c), rd)[Frame(c).sub]
              fr == CmdStep(Frame(c), rd)
          IN /\ trace' = << acc >>
             /\ mcu' = McuAfter(mcu, acc)
             /\ hw' = BusAfter(hw, c, acc)
             /\ cmd' = IF c = 1 THEN fr ELSE cmd
             /\ cmd2' = IF c = 2 THEN fr ELSE cmd2
    /\ call' = IF CmdRunning(cmd') \/ CmdRunning(cmd2') THEN call ELSE "none"
    /\ UNCHANGED << ini, shut, heap, registered, prev, owner >>

NextInterleaved ==
    \/ \E c \in {1, 2} : PairCall(c)
    \/ \E c \in {1, 2} : PairAccess(c)

SpecInterleaved == InitInterleaved /\ [][NextInterleaved]_vars

(***************************************************************************)
(* C17.  The command is not reentrant on one device: when the accesses of  *)
(* two invocations interleave, a data-offset access of one can land on the *)
(* register the other selected with its index write, and a chunk of one    *)
(* can run after the other has deasserted chip-select; when the caller     *)
(* lets one invocation return before it enters the next, neither happens.  *)
(***************************************************************************)
C17_OnlyOverlapMisdirects ==
    /\ (hw.victim # 0 \/ hw.afterDeassert) => hw.overlap
    /\ hw.victim # 0 => hw.selector \in {1, 2} \ {hw.victim}

\* both invocations are under way; an access of the first has landed on the
\* register the second selected, and a chunk has run with chip-select high
C17_Witness ==
    /\ hw.overlap
    /\ hw.victim = 1 /\ hw.selector = 2
    /\ hw.afterDeassert
    /\ CmdRunning(cmd)

(***************************************************************************)
(* One invocation of the command with unsigned int WBits wide, for every   *)
(* representable writecnt and readcnt                                      *)
(***************************************************************************)
\* UINT_MAX + 1
WrapModulus == 2 ^ WBits

\* the caller's write buffer; what it holds does not steer the loop
WrapWriteArr(n) == [k \in 1..n |-> 159]

InitWrap ==
    /\ call = "none"
    /\ ini = [InitFrame("done") EXCEPT !.ret = 0, !.dev = TRUE, !.data = TRUE]
    /\ cmd = CmdIdle
    /\ cmd2 = CmdIdle
    /\ shut = [stage |-> "not_called", ret |-> NoRet]
    /\ heap = "allocated"
    /\ registered = TRUE
    /\ trace = << >>
    /\ prev = NoAccess
    /\ owner = "init"
    /\ mcu = 0
    /\ hw = NoHw

\* lines 65-86: the command is entered with any representable counts
WrapCall ==
    /\ call = "none"
    /\ SessionOpen
    /\ cmd.stage = "idle"
    /\ \E writecnt \in 0..(WrapModulus - 1), readcnt \in 0..(WrapModulus - 1) :
          cmd' = CmdEntry(WrapModulus, writecnt, readcnt, WrapWriteArr(writecnt))
    /\ call' = "command"
    /\ owner' = "command"
    /\ UNCHANGED << ini, shut, heap, registered, trace, prev, mcu, cmd2, hw >>

\* lines 87-116: the next configuration-space access of the command
WrapAccess ==
    /\ call = "command"
    /\ CmdRunning(cmd)
    /\ \E rd \in CmdReads(cmd) :
          /\ trace' = << CmdAccesses(cmd, rd)[cmd.sub] >>
          /\ mcu' = McuAfter(mcu, CmdAccesses(cmd, rd)[cmd.sub])
          /\ cmd' = CmdStep(cmd, rd)
    /\ call' = IF CmdRunning(cmd') THEN call ELSE "none"
    /\ UNCHANGED << ini, shut, heap, registered, prev, owner, cmd2, hw >>

NextWrap ==
    \/ WrapCall
    \/ WrapAccess

\* the call is synchronous: once entered, the processor keeps executing it
SpecWrap == InitWrap /\ [][NextWrap]_vars /\ WF_vars(WrapAccess)

(***************************************************************************)
(* C19.  With writecnt, readcnt, totalcnt and j unsigned WBits-bit         *)
(* integers, the command terminates for every representable writecnt and   *)
(* readcnt: once entered, the chunk loop is left, chip-select is           *)
(* deasserted and the call returns.                                        *)
(***************************************************************************)
C19_CommandTerminates ==
    (call = "command") ~> (cmd.stage = "done" /\ cmd.ret = 0)

====
